---- MODULE Spec2Model ----
(***************************************************************************)
(* Model of pyPumpControl.py: the scheduler thread, the control-surface    *)
(* callbacks run by the Tk main loop, the shared lock and the transport.   *)
(*                                                                         *)
(* Two threads exist: the daemon thread running scheduler() and the Tk     *)
(* main-loop thread, which runs one button callback at a time.  A step of  *)
(* the model is one access to shared state (or a run of purely local       *)
(* statements), so every interleaving of the two threads that the          *)
(* interpreter can produce is a behaviour of Spec.                         *)
(***************************************************************************)
EXTENDS Integers, Sequences, FiniteSets, TLC

VARIABLES
    MOCK_MODE,   \* module flag, fixed for the whole run (line 13)
    ser,         \* the global serial handle: "None", "open" or "closed"
    connected,   \* global flag (line 11)
    cancelled,   \* global flag (line 14)
    pumps,       \* per-axis record (lines 31-35)
    lock,        \* owner of threading.Lock(): "free", "sched" or "gui"
    spc,         \* position of the scheduler thread
    si,          \* scheduler: index of the axis the for-loop is at
    cmd,         \* scheduler: fields of the G1 line built so far
    gpc,         \* position of the Tk main-loop thread
    gi,          \* main-loop thread: loop index / number of the next send
    out,         \* the line handed to the transport by the last step, if any
    gOp,         \* history: the callback the main loop is running
    gRes,        \* history: how that callback ended
    gLines,      \* history: lines that callback handed to the transport
    tchk,        \* history: what line 94 decided in the current/last tick:
                 \*          "none" (not reached), "noconn", "latched" or "pass"
    tn,          \* history: lines the current/last tick handed to the transport
    cancelRan,   \* history: cancel_and_reset set the latch, no connect since
    connFailed,  \* history: the last connect_serial failed ("open", "init")
    snap,        \* history: the (axis, flow) pairs this tick has read
    cands,       \* history: the complete flow settings that existed during
                 \*          this tick, none of them half-written
    seen,        \* history: per axis the loop of this tick has passed, the
                 \*          enabled flag it read
    dirty,       \* history: toggle_pump flipped an axis after the loop of this
                 \*          tick had read it
    gIn,         \* history: the rows of the form the running apply_rates read
    zeroRan      \* history: cancel_and_reset zeroed the flows, no apply_rates
                 \*          called since

progVars == <<MOCK_MODE, ser, connected, cancelled, pumps, lock>>
schedVars == <<spc, si, cmd>>
guiVars == <<gpc, gi>>
guiHist == <<gOp, gRes, gLines, gIn, cancelRan, zeroRan, connFailed>>
tickHist == <<tchk, tn, snap, seen, cands, dirty>>
vars == <<MOCK_MODE, ser, connected, cancelled, pumps, lock, spc, si, cmd,
          gpc, gi, out, gOp, gRes, gLines, tchk, tn, cancelRan,
          connFailed, snap, cands, seen, dirty, gIn, zeroRan>>

----------------------------------------------------------------------------
(* Bounds and inputs *)

\* How many of the AllInputs the user may have put into one row of the form.
MaxInputs == 3

\* A row of the form: the text of the flow entry and the syringe selection.
AllInputs ==
    <<[text |-> "6000", name |-> "10 mL HenkeJect"],
      [text |-> "abc", name |-> "bogus"],
      [text |-> "0.0", name |-> "none"],
      [text |-> "-3000", name |-> "5 mL HenkeJect"],
      [text |-> "0.0", name |-> "2 mL HenkeJect"]>>

Inputs ==
    {AllInputs[i] : i \in {j \in 1..Len(AllInputs) : j <= MaxInputs}}

\* Every row, one per entry of the syringe menu and one unknown selection
AllRows == {AllInputs[i] : i \in 1..Len(AllInputs)}

----------------------------------------------------------------------------
(* Program constants and pure helpers *)

stepsize == 1

Axes == <<"X", "Y", "Z">>

AxisSet == {"X", "Y", "Z"}

syringes ==
    ("0" :> [name |-> "none", steps |-> 0]) @@
    ("1" :> [name |-> "10 mL HenkeJect", steps |-> 20927]) @@
    ("2" :> [name |-> "5 mL HenkeJect", steps |-> 10800]) @@
    ("3" :> [name |-> "2 mL HenkeJect", steps |-> 20003])

\* The lookup without its default: an unknown name is stored as it is
syringe_name_to_id_NoDefault(selected_name) ==
    IF \E k \in DOMAIN syringes : syringes[k].name = selected_name
    THEN CHOOSE k \in DOMAIN syringes : syringes[k].name = selected_name
    ELSE selected_name

\* syringe_name_to_id.get(selected_name, '0')
syringe_name_to_id(selected_name) ==
    IF \E k \in DOMAIN syringes : syringes[k].name = selected_name
    THEN CHOOSE k \in DOMAIN syringes : syringes[k].name = selected_name
    ELSE "0"

\* float(text): the value, or ValueError
ParseFloat(text) ==
    CASE text = "0.0" -> [ok |-> TRUE, val |-> 0]
      [] text = "6000" -> [ok |-> TRUE, val |-> 6000]
      [] text = "-3000" -> [ok |-> TRUE, val |-> 0 - 3000]
      [] OTHER -> [ok |-> FALSE, val |-> 0]

\* try: float(...) except ValueError: 0.0
NewFlow(text) == IF ParseFloat(text).ok THEN ParseFloat(text).val ELSE 0

Abs(n) == IF n < 0 THEN 0 - n ELSE n

\* One field of a command line as it is formatted: a letter, a sign, digits.
Field(k, n) == [k |-> k, neg |-> n < 0, mag |-> Abs(n)]

Line(op, args) == [op |-> op, args |-> args]

\* (flow / 60) / 1000, in thousandths (flow/60 is exact for the inputs)
printer_flow(flow) == flow \div 60

\* f" F{printer_stepsize}", printer_stepsize = stepsize / 60, in sixtieths
FField == Field("F", stepsize)

M112 == Line("M112", <<>>)
M999 == Line("M999", <<>>)
M302 == Line("M302", <<[k |-> "S", neg |-> FALSE, mag |-> 0]>>)
M211 == Line("M211", <<[k |-> "S", neg |-> FALSE, mag |-> 0]>>)
G91 == Line("G91", <<>>)

\* The literal "M92 X-0 Y-0 Z0" of connect_serial
ConnectM92 ==
    Line("M92", <<[k |-> "X", neg |-> TRUE, mag |-> 0],
                  [k |-> "Y", neg |-> TRUE, mag |-> 0],
                  [k |-> "Z", neg |-> FALSE, mag |-> 0]>>)

\* The init lines of connect_serial with the last one forgotten
ConnectLines_NoG91 == <<ConnectM92, M302, M211>>

\* The init lines connect_serial sends on the real transport
ConnectLines_Real == <<ConnectM92, M302, M211, G91>>

\* The M92 fields with the steps of the table on every axis, no sign forced
StepsField_NoAbs(p, axis) == Field(axis, syringes[p[axis].syringe].steps)

\* The M92 line apply_rates builds from the stored syringes (lines 132-141)
StepsField(p, axis) ==
    LET steps_per_ml == syringes[p[axis].syringe].steps
    IN  IF axis \in {"X", "Y"}
        THEN Field(axis, 0 - Abs(steps_per_ml))
        ELSE Field(axis, steps_per_ml)

m92_cmd(p) == Line("M92", [i \in 1..3 |-> StepsField(p, Axes[i])])

StandingLines == <<M302, M211, G91>>

ApplyLines(p) == <<m92_cmd(p)>> \o StandingLines

CancelLines == <<M112, M999>>

NoOut == [who |-> "none", line |-> Line("", <<>>)]

Emit(who, line) == [who |-> who, line |-> line]

InitPumps ==
    [a \in AxisSet |->
        [flow |-> 0, pos |-> 0, syringe |-> "0", enabled |-> TRUE]]

\* A toggle that switches the axis off, whatever it was
TogglePump_Off(p, axis) == [p EXCEPT ![axis].enabled = FALSE]

\* line 38: pumps[axis]['enabled'] = not pumps[axis]['enabled']
TogglePump(p, axis) == [p EXCEPT ![axis].enabled = ~p[axis].enabled]

\* The loop body of the tick with the test of enabled left out
AxisCmd_All(c, axis, data) ==
    Append(c, Field(axis, printer_flow(data.flow)))

\* lines 97-101: if not data['enabled']: continue;
\* cmd += f" {axis}{printer_flow:.3f}"
AxisCmd(c, axis, data) ==
    IF data.enabled
    THEN Append(c, Field(axis, printer_flow(data.flow)))
    ELSE c

\* The flow setting of all axes
Flows(p) == [a \in AxisSet |-> p[a].flow]

\* The main-loop thread is inside a loop that writes the flows, some axes
\* written and some not yet
BatchMid == gpc \in {"k_flow", "a_set"} /\ gi > 1

\* The scheduler thread is inside the with block of a tick
TickBody == spc \in {"chk_conn", "chk_canc", "axis", "send", "ser", "write", "print"}

\* The loop of the current tick has read the enabled flag of the axis
AxisRead(axis) ==
    \/ spc \in {"send", "ser", "write", "print"}
    \/ spc = "axis" /\ \E i \in 1..3 : i < si /\ Axes[i] = axis

----------------------------------------------------------------------------
Init ==
    /\ MOCK_MODE \in BOOLEAN
    /\ ser = "None"
    /\ connected = FALSE
    /\ cancelled = FALSE
    /\ pumps = InitPumps
    /\ lock = "free"
    /\ spc = "sleep"
    /\ si = 1
    /\ cmd = <<>>
    /\ gpc = "idle"
    /\ gi = 1
    /\ out = NoOut
    /\ gOp = "none"
    /\ gRes = "none"
    /\ gLines = <<>>
    /\ tchk = "none"
    /\ tn = 0
    /\ cancelRan = FALSE
    /\ connFailed = "no"
    /\ snap = <<>>
    /\ cands = {}
    /\ seen = <<>>
    /\ dirty = FALSE
    /\ gIn = <<>>
    /\ zeroRan = FALSE

----------------------------------------------------------------------------
(* The scheduler thread, lines 88-104 *)

\* line 92: time.sleep(stepsize)
SchedSleep ==
    /\ spc = "sleep"
    /\ spc' = "lock"
    /\ tchk' = "none"
    /\ tn' = 0
    /\ out' = NoOut
    /\ UNCHANGED <<progVars, si, cmd, guiVars, guiHist, snap, seen, cands, dirty>>

\* line 93: with lock (acquire; blocks while the lock is held)
SchedAcquire ==
    /\ spc = "lock"
    /\ lock = "free"
    /\ lock' = "sched"
    /\ spc' = "chk_conn"
    /\ cands' = IF BatchMid THEN {} ELSE {Flows(pumps)}
    /\ out' = NoOut
    /\ UNCHANGED <<MOCK_MODE, ser, connected, cancelled, pumps, si, cmd,
                   guiVars, guiHist, tchk, tn, snap, seen, dirty>>

\* The with block of a tick is left: the lock is released and the locals
\* of the tick are gone.
EndTick ==
    /\ lock' = "free"
    /\ si' = 1
    /\ cmd' = <<>>
    /\ snap' = <<>>
    /\ cands' = {}
    /\ seen' = <<>>
    /\ dirty' = FALSE

\* line 94, left operand: if connected ...
SchedCheckConnected ==
    /\ spc = "chk_conn"
    /\ IF connected
       THEN /\ spc' = "chk_canc"
            /\ UNCHANGED <<lock, si, cmd, snap, seen, cands, dirty, tchk>>
       ELSE /\ spc' = "sleep"
            /\ tchk' = "noconn"
            /\ EndTick
    /\ out' = NoOut
    /\ UNCHANGED <<MOCK_MODE, ser, connected, cancelled, pumps,
                   guiVars, guiHist, tn>>

\* The tick without the test of cancelled (if connected:)
SchedCheckCancelled_NoLatch ==
    /\ spc = "chk_canc"
    /\ spc' = "axis"
    /\ tchk' = "pass"
    /\ out' = NoOut
    /\ UNCHANGED <<progVars, si, cmd, guiVars, guiHist, tn, snap, seen, cands, dirty>>

\* line 94, right operand: ... and not cancelled; line 95: cmd = "G1"
SchedCheckCancelled ==
    /\ spc = "chk_canc"
    /\ IF ~cancelled
       THEN /\ spc' = "axis"
            /\ tchk' = "pass"
            /\ UNCHANGED <<lock, si, cmd, snap, seen, cands, dirty>>
       ELSE /\ spc' = "sleep"
            /\ tchk' = "latched"
            /\ EndTick
    /\ out' = NoOut
    /\ UNCHANGED <<MOCK_MODE, ser, connected, cancelled, pumps,
                   guiVars, guiHist, tn>>

\* lines 96-101, one iteration of the loop over pumps.items(); after the
\* last one, line 103 appends the F field
SchedAxis ==
    /\ spc = "axis"
    /\ LET axis == Axes[si]
           data == pumps[axis]
           c1 == AxisCmd(cmd, axis, data)
       IN  /\ seen' = Append(seen, [axis |-> axis, enabled |-> data.enabled])
           /\ snap' = IF data.enabled
                      THEN Append(snap, [axis |-> axis, flow |-> data.flow])
                      ELSE snap
           /\ IF si < 3
              THEN /\ si' = si + 1
                   /\ cmd' = c1
                   /\ spc' = "axis"
              ELSE /\ si' = 1
                   /\ cmd' = Append(c1, FField)
                   /\ spc' = "send"
    /\ out' = NoOut
    /\ UNCHANGED <<progVars, guiVars, guiHist, tchk, tn, cands, dirty>>

\* line 104 -> send_gcode, line 82: if connected   (false: return, the with
\* block ends); line 83 in mock mode is decided by the flag alone
SchedSendCheck ==
    /\ spc = "send"
    /\ IF connected
       THEN /\ spc' = IF MOCK_MODE THEN "print" ELSE "ser"
            /\ UNCHANGED <<lock, si, cmd, snap, seen, cands, dirty>>
       ELSE /\ spc' = "sleep"
            /\ EndTick
    /\ out' = NoOut
    /\ UNCHANGED <<MOCK_MODE, ser, connected, cancelled, pumps,
                   guiVars, guiHist, tchk, tn>>

\* line 83: if not MOCK_MODE and ser   (a Serial object is truthy, open or
\* closed; None is not)
SchedSendSer ==
    /\ spc = "ser"
    /\ spc' = IF ser # "None" THEN "write" ELSE "print"
    /\ out' = NoOut
    /\ UNCHANGED <<progVars, si, cmd, guiVars, guiHist, tickHist>>

\* line 84: ser.write(...): ser is loaded again; None has no write, a closed
\* port raises, an open port writes the line or raises an I/O error.  The
\* exception is caught nowhere: it ends the with block and the thread.
SchedWrite ==
    /\ spc = "write"
    /\ \/ /\ ser = "open"
          /\ out' = Emit("sched", Line("G1", cmd))
          /\ tn' = tn + 1
          /\ spc' = "print"
          /\ UNCHANGED <<lock, si, cmd, snap, seen, cands, dirty>>
       \/ /\ spc' = "dead"
          /\ EndTick
          /\ out' = NoOut
          /\ UNCHANGED tn
    /\ UNCHANGED <<MOCK_MODE, ser, connected, cancelled, pumps,
                   guiVars, guiHist, tchk>>

\* line 85: print(f">> {command}"), all the mock transport does with a
\* line; then the with block ends
SchedPrint ==
    /\ spc = "print"
    /\ IF MOCK_MODE
       THEN /\ out' = Emit("sched", Line("G1", cmd))
            /\ tn' = tn + 1
       ELSE /\ out' = NoOut
            /\ UNCHANGED tn
    /\ spc' = "sleep"
    /\ EndTick
    /\ UNCHANGED <<MOCK_MODE, ser, connected, cancelled, pumps,
                   guiVars, guiHist, tchk>>

Scheduler ==
    \/ SchedSleep
    \/ SchedAcquire
    \/ SchedCheckConnected
    \/ SchedCheckCancelled
    \/ SchedAxis
    \/ SchedSendCheck
    \/ SchedSendSer
    \/ SchedWrite
    \/ SchedPrint

----------------------------------------------------------------------------
(* The Tk main-loop thread: one callback at a time, lines 37-147 *)

\* What a call of send_gcode can do (lines 81-85).  The main-loop thread is
\* the only writer of connected and ser, so its own call reads them
\* unchanged throughout: "sent" the line reached the transport, "skip" it
\* did not (line 82 or line 83 false), "raise" ser.write raised (a closed
\* port, or an I/O error on an open one).
CanSend(o) ==
    CASE o = "sent" -> connected /\ (MOCK_MODE \/ ser = "open")
      [] o = "skip" -> ~connected \/ (~MOCK_MODE /\ ser = "None")
      [] o = "raise" -> connected /\ ~MOCK_MODE /\ ser # "None"

send_gcode(o, command) ==
    /\ CanSend(o)
    /\ IF o = "sent"
       THEN /\ out' = Emit("gui", command)
            /\ gLines' = Append(gLines, command)
       ELSE /\ out' = NoOut
            /\ UNCHANGED gLines
    /\ UNCHANGED gIn

\* The main loop calls a callback.
Begin(op) ==
    /\ gpc = "idle"
    /\ gOp' = op
    /\ gRes' = "run"
    /\ gLines' = <<>>
    /\ gIn' = <<>>

\* The callback has ended (gRes says how); the main loop takes over again.
GuiReturn ==
    /\ gpc = "ret"
    /\ gpc' = "idle"
    /\ gOp' = "none"
    /\ gRes' = "none"
    /\ gLines' = <<>>
    /\ gIn' = <<>>
    /\ out' = NoOut
    /\ UNCHANGED <<progVars, schedVars, gi, cancelRan, zeroRan, connFailed, tickHist>>

\* The end of a with lock block in the main-loop thread
GuiRelease == lock' = IF lock = "gui" THEN "free" ELSE lock

\* A completed loop over the axes that wrote the flows: a new complete
\* flow setting exists from here on
BatchDone(p) ==
    /\ cands' = IF TickBody THEN cands \cup {Flows(p)} ELSE cands
    /\ UNCHANGED dirty

\* lines 37-41
toggle_pump ==
    /\ gpc = "idle"
    /\ \E axis \in AxisSet :
          /\ pumps' = TogglePump(pumps, axis)
          /\ dirty' = (dirty \/ AxisRead(axis))
    /\ out' = NoOut
    /\ UNCHANGED <<MOCK_MODE, ser, connected, cancelled, lock, schedVars,
                   guiVars, guiHist, tchk, tn, snap, seen, cands>>

\* line 46: cancelled = False; line 48: if MOCK_MODE
ConnectCall ==
    /\ Begin("connect_serial")
    /\ cancelled' = FALSE
    /\ cancelRan' = FALSE
    /\ connFailed' = "no"
    /\ gpc' = IF MOCK_MODE THEN "c_mock" ELSE "c_open"
    /\ out' = NoOut
    /\ UNCHANGED <<MOCK_MODE, ser, connected, pumps, lock, schedVars, gi,
                   zeroRan, tickHist>>

\* lines 49-51
ConnectMock ==
    /\ gpc = "c_mock"
    /\ connected' = TRUE
    /\ gpc' = "ret"
    /\ gRes' = "ok"
    /\ out' = NoOut
    /\ UNCHANGED <<MOCK_MODE, ser, cancelled, pumps, lock, schedVars, gi,
                   gOp, gLines, gIn, cancelRan, zeroRan, connFailed, tickHist>>

\* line 54: ser = serial.Serial(...): a handle, or an exception that leaves
\* ser as it was
ConnectOpen ==
    /\ gpc = "c_open"
    /\ \/ /\ ser' = "open"
          /\ gpc' = "c_ready"
          /\ UNCHANGED gRes
       \/ /\ gpc' = "c_except"
          /\ gRes' = "openfail"
          /\ UNCHANGED ser
    /\ out' = NoOut
    /\ UNCHANGED <<MOCK_MODE, connected, cancelled, pumps, lock, schedVars,
                   gi, gOp, gLines, gIn, cancelRan, zeroRan, connFailed, tickHist>>

\* lines 55-59: sleep, reset_input_buffer (which may raise), connected = True
ConnectReady ==
    /\ gpc = "c_ready"
    /\ \/ /\ connected' = TRUE
          /\ gpc' = "c_init"
          /\ UNCHANGED gRes
       \/ /\ gpc' = "c_except"
          /\ gRes' = "initfail"
          /\ UNCHANGED connected
    /\ out' = NoOut
    /\ UNCHANGED <<MOCK_MODE, ser, cancelled, pumps, lock, schedVars, gi,
                   gOp, gLines, gIn, cancelRan, zeroRan, connFailed, tickHist>>

\* lines 62-65: the send_gcode calls of the try block, one per step
ConnectInit ==
    /\ gpc = "c_init"
    /\ \E o \in {"sent", "skip", "raise"} :
          /\ send_gcode(o, ConnectLines_Real[gi])
          /\ IF o = "raise"
             THEN /\ gpc' = "c_except"
                  /\ gRes' = "initfail"
                  /\ gi' = 1
             ELSE IF gi < Len(ConnectLines_Real)
                  THEN /\ gi' = gi + 1
                       /\ UNCHANGED <<gpc, gRes>>
                  ELSE /\ gi' = 1
                       /\ gpc' = "ret"
                       /\ gRes' = "ok"
    /\ UNCHANGED <<progVars, schedVars, gOp, cancelRan, zeroRan, connFailed, tickHist>>

\* An except clause that reports the failure and leaves connected alone
ConnectExcept_KeepFlag ==
    /\ gpc = "c_except"
    /\ gpc' = "ret"
    /\ connFailed' = IF gRes = "openfail" THEN "open" ELSE "init"
    /\ out' = NoOut
    /\ UNCHANGED <<progVars, schedVars, gi, gOp, gRes, gLines, gIn, cancelRan, zeroRan,
                   tickHist>>

\* lines 67-70: except Exception: connected = False
ConnectExcept ==
    /\ gpc = "c_except"
    /\ connected' = FALSE
    /\ gpc' = "ret"
    /\ connFailed' = IF gRes = "openfail" THEN "open" ELSE "init"
    /\ out' = NoOut
    /\ UNCHANGED <<MOCK_MODE, ser, cancelled, pumps, lock, schedVars, gi,
                   gOp, gRes, gLines, gIn, cancelRan, zeroRan, tickHist>>

\* lines 74-75: if not MOCK_MODE and ser: ser.close()
DisconnectCall ==
    /\ Begin("disconnect_serial")
    /\ IF ~MOCK_MODE /\ ser # "None"
       THEN /\ ser' = "closed"
            /\ gpc' = "d_none"
       ELSE /\ gpc' = "d_flag"
            /\ UNCHANGED ser
    /\ out' = NoOut
    /\ UNCHANGED <<MOCK_MODE, connected, cancelled, pumps, lock, schedVars,
                   gi, cancelRan, zeroRan, connFailed, tickHist>>

\* line 76: ser = None
DisconnectNone ==
    /\ gpc = "d_none"
    /\ ser' = "None"
    /\ gpc' = "d_flag"
    /\ out' = NoOut
    /\ UNCHANGED <<MOCK_MODE, connected, cancelled, pumps, lock, schedVars,
                   gi, guiHist, tickHist>>

\* A disconnect that also clears the latch
DisconnectFlag_ClearsLatch ==
    /\ gpc = "d_flag"
    /\ connected' = FALSE
    /\ cancelled' = FALSE
    /\ gpc' = "ret"
    /\ gRes' = "ok"
    /\ out' = NoOut
    /\ UNCHANGED <<MOCK_MODE, ser, pumps, lock, schedVars, gi,
                   gOp, gLines, gIn, cancelRan, zeroRan, connFailed, tickHist>>

\* lines 77-79: connected = False
DisconnectFlag ==
    /\ gpc = "d_flag"
    /\ connected' = FALSE
    /\ gpc' = "ret"
    /\ gRes' = "ok"
    /\ out' = NoOut
    /\ UNCHANGED <<MOCK_MODE, ser, cancelled, pumps, lock, schedVars, gi,
                   gOp, gLines, gIn, cancelRan, zeroRan, connFailed, tickHist>>

\* cancel_and_reset is called (line 106) and reaches with lock
CancelCall ==
    /\ Begin("cancel_and_reset")
    /\ gpc' = "k_lock"
    /\ out' = NoOut
    /\ UNCHANGED <<progVars, schedVars, gi, cancelRan, zeroRan, connFailed, tickHist>>

\* cancel_and_reset entering its body without taking the lock
CancelAcquire_NoLock ==
    /\ gpc = "k_lock"
    /\ gpc' = "k_flag"
    /\ out' = NoOut
    /\ UNCHANGED <<progVars, schedVars, gi, guiHist, tickHist>>

\* line 108: with lock (acquire; blocks while the scheduler holds it)
CancelAcquire ==
    /\ gpc = "k_lock"
    /\ lock = "free"
    /\ lock' = "gui"
    /\ gpc' = "k_flag"
    /\ out' = NoOut
    /\ UNCHANGED <<MOCK_MODE, ser, connected, cancelled, pumps, schedVars,
                   gi, guiHist, tickHist>>

\* line 109: cancelled = True
CancelFlag ==
    /\ gpc = "k_flag"
    /\ cancelled' = TRUE
    /\ cancelRan' = TRUE
    /\ gpc' = "k_flow"
    /\ out' = NoOut
    /\ UNCHANGED <<MOCK_MODE, ser, connected, pumps, lock, schedVars, gi,
                   gOp, gRes, gLines, gIn, zeroRan, connFailed, tickHist>>

\* The loop of cancel_and_reset with its assignment left out
CancelFlow_KeepFlow ==
    /\ gpc = "k_flow"
    /\ IF gi < 3
       THEN /\ gi' = gi + 1
            /\ UNCHANGED <<gpc, cands, dirty, zeroRan>>
       ELSE /\ gi' = 1
            /\ gpc' = "k_send"
            /\ zeroRan' = TRUE
            /\ BatchDone(pumps)
    /\ out' = NoOut
    /\ UNCHANGED <<progVars, schedVars, gOp, gRes, gLines, gIn, cancelRan,
                   connFailed, tchk, tn, snap, seen>>

\* lines 110-112, one iteration: pumps[axis]['flow'] = 0.0
CancelFlow ==
    /\ gpc = "k_flow"
    /\ pumps' = [pumps EXCEPT ![Axes[gi]].flow = 0]
    /\ IF gi < 3
       THEN /\ gi' = gi + 1
            /\ UNCHANGED <<gpc, cands, dirty, zeroRan>>
       ELSE /\ gi' = 1
            /\ gpc' = "k_send"
            /\ zeroRan' = TRUE
            /\ BatchDone(pumps')
    /\ out' = NoOut
    /\ UNCHANGED <<MOCK_MODE, ser, connected, cancelled, lock, schedVars,
                   gOp, gRes, gLines, gIn, cancelRan, connFailed,
                   tchk, tn, snap, seen>>

\* lines 113-116: send_gcode("M112"), send_gcode("M999"), one per step; an
\* exception leaves the with block and the callback
CancelSend ==
    /\ gpc = "k_send"
    /\ \E o \in {"sent", "skip", "raise"} :
          /\ send_gcode(o, CancelLines[gi])
          /\ IF o = "raise"
             THEN /\ gpc' = "ret"
                  /\ gRes' = "raised"
                  /\ gi' = 1
                  /\ GuiRelease
             ELSE IF gi < Len(CancelLines)
                  THEN /\ gi' = gi + 1
                       /\ UNCHANGED <<gpc, gRes, lock>>
                  ELSE /\ gi' = 1
                       /\ gpc' = "ret"
                       /\ gRes' = "ok"
                       /\ GuiRelease
    /\ UNCHANGED <<MOCK_MODE, ser, connected, cancelled, pumps, schedVars,
                   gOp, cancelRan, zeroRan, connFailed, tickHist>>

\* apply_rates is called (line 119) and reaches with lock
ApplyCall ==
    /\ Begin("apply_rates")
    /\ gpc' = "a_lock"
    /\ zeroRan' = FALSE
    /\ out' = NoOut
    /\ UNCHANGED <<progVars, schedVars, gi, cancelRan, connFailed, tickHist>>

\* apply_rates entering its body without taking the lock
ApplyAcquire_NoLock ==
    /\ gpc = "a_lock"
    /\ gpc' = "a_set"
    /\ out' = NoOut
    /\ UNCHANGED <<progVars, schedVars, gi, guiHist, tickHist>>

\* line 120: with lock
ApplyAcquire ==
    /\ gpc = "a_lock"
    /\ lock = "free"
    /\ lock' = "gui"
    /\ gpc' = "a_set"
    /\ out' = NoOut
    /\ UNCHANGED <<MOCK_MODE, ser, connected, cancelled, pumps, schedVars,
                   gi, guiHist, tickHist>>

\* lines 122-130, one iteration: the entry's text and the selection are
\* read when the loop reaches the axis
ApplySetFrom(rows) ==
    /\ gpc = "a_set"
    /\ \E row \in rows :
          /\ pumps' = [pumps EXCEPT
                          ![Axes[gi]].flow = NewFlow(row.text),
                          ![Axes[gi]].syringe = syringe_name_to_id(row.name)]
          /\ gIn' = Append(gIn, row)
    /\ IF gi < 3
       THEN /\ gi' = gi + 1
            /\ UNCHANGED <<gpc, cands, dirty>>
       ELSE /\ gi' = 1
            /\ gpc' = "a_send"
            /\ BatchDone(pumps')
    /\ out' = NoOut
    /\ UNCHANGED <<MOCK_MODE, ser, connected, cancelled, lock, schedVars,
                   gOp, gRes, gLines, cancelRan, zeroRan, connFailed,
                   tchk, tn, snap, seen>>

ApplySet == ApplySetFrom(Inputs)

\* The same loop with every entry of the syringe menu selectable
ApplySetAll == ApplySetFrom(AllRows)

\* lines 132-147: the M92 line built from the stored syringes, then the
\* three standing lines, one send_gcode per step
ApplySend ==
    /\ gpc = "a_send"
    /\ \E o \in {"sent", "skip", "raise"} :
          /\ send_gcode(o, ApplyLines(pumps)[gi])
          /\ IF o = "raise"
             THEN /\ gpc' = "ret"
                  /\ gRes' = "raised"
                  /\ gi' = 1
                  /\ GuiRelease
             ELSE IF gi < Len(ApplyLines(pumps))
                  THEN /\ gi' = gi + 1
                       /\ UNCHANGED <<gpc, gRes, lock>>
                  ELSE /\ gi' = 1
                       /\ gpc' = "ret"
                       /\ gRes' = "ok"
                       /\ GuiRelease
    /\ UNCHANGED <<MOCK_MODE, ser, connected, cancelled, pumps, schedVars,
                   gOp, cancelRan, zeroRan, connFailed, tickHist>>

MainLoop ==
    \/ toggle_pump
    \/ ConnectCall
    \/ ConnectMock
    \/ ConnectOpen
    \/ ConnectReady
    \/ ConnectInit
    \/ ConnectExcept
    \/ DisconnectCall
    \/ DisconnectNone
    \/ DisconnectFlag
    \/ CancelCall
    \/ CancelAcquire
    \/ CancelFlag
    \/ CancelFlow
    \/ CancelSend
    \/ ApplyCall
    \/ ApplyAcquire
    \/ ApplySet
    \/ ApplySend
    \/ GuiReturn

Next == Scheduler \/ MainLoop

Spec == Init /\ [][Next]_vars

\* The main-loop thread with the complete syringe menu: connect_serial and
\* apply_rates, called in any order while the scheduler thread sleeps.
NextCalib ==
    \/ ConnectCall
    \/ ConnectMock
    \/ ConnectOpen
    \/ ConnectReady
    \/ ConnectInit
    \/ ConnectExcept
    \/ ApplyCall
    \/ ApplyAcquire
    \/ ApplySetAll
    \/ ApplySend
    \/ GuiReturn

SpecCalib == Init /\ [][NextCalib]_vars

----------------------------------------------------------------------------
(* Properties *)

SchedEmitsMotion == out.who = "sched" /\ out.line.op = "G1"

\* C1: once cancel_and_reset has set the latch, no step of the scheduler
\* hands a G1 line to the transport until connect_serial is called again,
\* whatever the interleaving of the two threads.
C1_NoMotionAfterCancel == SchedEmitsMotion => ~cancelRan

\* C1 witness: a tick ran line 94 while connected, after cancel_and_reset
\* and before any connect, found the latch set and went back to sleep.
C1_Witness ==
    /\ cancelRan
    /\ connected
    /\ spc = "sleep"
    /\ tchk = "latched"
    /\ tn = 0

\* C2: every write of the pump state, of cancelled and of connected happens
\* while the writing thread (always the main-loop thread) holds the lock.
C2_WritesUnderLock ==
    [][(pumps' # pumps \/ cancelled' # cancelled \/ connected' # connected)
          => lock = "gui"]_vars

\* C3: no failure of a transport write during a tick ends the scheduler
\* thread.
C3_SchedulerNeverStops == spc # "dead"

\* C4: a tick that has ended sent no line when line 94 found connected
\* false or cancelled true, and exactly one line otherwise.
C4_TickSendsOneIffGateOpen ==
    spc \in {"sleep", "dead"} => tn = IF tchk = "pass" THEN 1 ELSE 0

HasStanding(lines) ==
    \E i \in 1..Len(lines) :
        /\ i + 2 <= Len(lines)
        /\ SubSeq(lines, i, i + 2) = <<M302, M211, G91>>

ConnectSucceeded ==
    gOp = "connect_serial" /\ gpc = "ret" /\ gRes = "ok"

\* C5 as stated: every successful connect, mock or real, has sent M302 S0,
\* M211 S0, G91.
C5_EveryConnectSendsStanding == ConnectSucceeded => HasStanding(gLines)

\* C5 amended: a successful connect on the real transport has sent exactly
\* M92 X-0 Y-0 Z0, M302 S0, M211 S0, G91, in this order; a connect on the
\* mock transport succeeds and has sent nothing.
C5_RealConnectSendsInit ==
    ConnectSucceeded =>
        /\ connected
        /\ gLines = IF MOCK_MODE
                    THEN <<>>
                    ELSE <<ConnectM92, M302, M211, G91>>

\* C5 witness: a connect on the real transport has just succeeded.
C5_Witness == ConnectSucceeded /\ ~MOCK_MODE /\ HasStanding(gLines)

\* C6: a line is handed to the transport only in a state where connected
\* is true.
C6_SendOnlyWhileConnected == out.who # "none" => connected

\* The fields of the G1 line that the flows read so far amount to
SnapFields ==
    [i \in 1..Len(snap) |-> Field(snap[i].axis, printer_flow(snap[i].flow))]

\* C7: the flows a tick has read, and the G1 line it is about to send, are
\* those of one complete flow setting that existed during the tick: all
\* from before or all from after any apply_rates or cancel_and_reset.
C7_ConsistentSnapshot ==
    /\ spc \in {"axis", "send", "ser", "write", "print"} =>
          \E v \in cands : \A i \in 1..Len(snap) : snap[i].flow = v[snap[i].axis]
    /\ spc \in {"send", "ser", "write", "print"} =>
          cmd = Append(SnapFields, FField)

\* C7 witness: a tick has read a non-zero flow for all three axes and is
\* about to send, while an apply_rates is waiting for the lock.
C7_Witness ==
    /\ spc = "send"
    /\ Len(snap) = 3
    /\ \A i \in 1..3 : snap[i].flow # 0
    /\ gpc = "a_lock"

\* C8: a cancel_and_reset that ends while connected has set cancelled,
\* zeroed the three flows and sent exactly M112 then M999.
C8_CancelSendsStopThenReset ==
    (gOp = "cancel_and_reset" /\ gpc = "ret" /\ connected) =>
        /\ cancelled
        /\ \A a \in AxisSet : pumps[a].flow = 0
        /\ gLines = <<M112, M999>>

\* C9: an apply_rates that ends while connected has sent exactly four
\* lines: M92 of the stored syringes, M302 S0, M211 S0, G91.
C9_ApplySendsFourLines ==
    (gOp = "apply_rates" /\ gpc = "ret" /\ connected) =>
        gLines = <<m92_cmd(pumps), M302, M211, G91>>

FieldPos(k) == CASE k = "X" -> 1 [] k = "Y" -> 2 [] k = "Z" -> 3 [] OTHER -> 4

\* C11: whatever the enabled flags, the G1 line a tick hands to the
\* transport has exactly one rate field for every axis whose flag the loop
\* read as enabled and none for an axis it read as disabled, the rate
\* fields in the order X, Y, Z, and after them exactly one F field; with
\* all three axes disabled the line is still sent and is "G1 F...".
C11_FieldsFollowEnabled ==
    [][SchedEmitsMotion' =>
          LET a == out'.line.args
              n == Len(a)
          IN  /\ Len(seen) = 3
              /\ \A i \in 1..3 : seen[i].axis = Axes[i]
              /\ n >= 1
              /\ a[n] = FField
              /\ \A j \in 1..(n - 1) : a[j].k \in AxisSet
              /\ \A i \in 1..3 :
                    Cardinality({j \in 1..n : a[j].k = Axes[i]})
                        = IF seen[i].enabled THEN 1 ELSE 0
              /\ \A j1, j2 \in 1..n :
                    j1 < j2 => FieldPos(a[j1].k) < FieldPos(a[j2].k)
              /\ (\A i \in 1..3 : ~seen[i].enabled) => a = <<FField>>]_vars

\* C11 witness: a tick that passed line 94 with all three axes disabled
\* has handed the line "G1 F..." to the transport.
C11_Witness ==
    /\ SchedEmitsMotion
    /\ tchk = "pass"
    /\ \A a \in AxisSet : ~pumps[a].enabled
    /\ out.line.args = <<FField>>

\* apply_rates has just handed its M92 line to the transport
ApplyEmitsM92 ==
    gOp = "apply_rates" /\ out.who = "gui" /\ out.line.op = "M92"

\* C12: for every assignment of syringes to the axes, the M92 line of
\* apply_rates carries, in the order X, Y, Z, the value -|steps| of the
\* stored syringe for X and for Y and the unmodified steps for Z: the
\* 10 mL syringe on all three axes gives X-20927 Y-20927 Z20927, the none
\* syringe gives 0 on its axis.
C12_CalibrationSigns ==
    ApplyEmitsM92 =>
        LET a == out.line.args
            st(i) == syringes[pumps[Axes[i]].syringe].steps
        IN  /\ Len(a) = 3
            /\ \A i \in 1..3 :
                  /\ a[i].k = Axes[i]
                  /\ a[i].mag = Abs(st(i))
                  /\ a[i].neg = IF i < 3 THEN Abs(st(i)) > 0 ELSE st(i) < 0
                  /\ pumps[Axes[i]].syringe = "0" => (a[i].mag = 0 /\ ~a[i].neg)
            /\ (\A x \in AxisSet : pumps[x].syringe = "1") =>
                  a = <<[k |-> "X", neg |-> TRUE, mag |-> 20927],
                        [k |-> "Y", neg |-> TRUE, mag |-> 20927],
                        [k |-> "Z", neg |-> FALSE, mag |-> 20927]>>

\* C12 witness: apply_rates has sent the M92 line for the 5 mL syringe on
\* X, the 2 mL syringe on Y and the 10 mL syringe on Z.
C12_Witness ==
    /\ ApplyEmitsM92
    /\ pumps["X"].syringe = "2"
    /\ pumps["Y"].syringe = "3"
    /\ pumps["Z"].syringe = "1"
    /\ out.line.args[1] = [k |-> "X", neg |-> TRUE, mag |-> 10800]

\* An apply_rates has ended that read a flow text float() rejects
BadInputApplied ==
    /\ gOp = "apply_rates"
    /\ gpc = "ret"
    /\ \E i \in 1..Len(gIn) : ~ParseFloat(gIn[i].text).ok

\* C13: an apply_rates that read an unparseable flow text for an axis has
\* stored the flow 0.0 for that axis, has stored the parsed flow of every
\* other axis, has raised nothing to its caller and, while connected, has
\* sent the M92 line and the three standing lines.
C13_BadInputApplyCompletes ==
    BadInputApplied =>
        /\ Len(gIn) = 3
        /\ \A i \in 1..3 :
              pumps[Axes[i]].flow =
                  IF ParseFloat(gIn[i].text).ok
                  THEN ParseFloat(gIn[i].text).val
                  ELSE 0
        /\ gRes = "ok"
        /\ connected => gLines = <<m92_cmd(pumps), M302, M211, G91>>

KnownName(n) == \E k \in DOMAIN syringes : syringes[k].name = n

\* C14: in every reachable state the syringe stored for each axis is a key
\* of the calibration table, so the lookup of its steps never fails; the
\* only step that writes a syringe is the update loop of apply_rates, and
\* it stores the id of the selected name, or "0" for a name that is not in
\* the table.
C14_SyringeIsTableKey ==
    [][/\ \A a \in AxisSet : pumps[a].syringe \in DOMAIN syringes
       /\ \A a \in AxisSet : pumps'[a].syringe \in DOMAIN syringes
       /\ (\E a \in AxisSet : pumps'[a].syringe # pumps[a].syringe) =>
             (gOp = "apply_rates" /\ gpc = "a_set")
       /\ Len(gIn') = Len(gIn) + 1 =>
             LET row == gIn'[Len(gIn')]
                 id == pumps'[Axes[Len(gIn')]].syringe
             IN  IF KnownName(row.name)
                 THEN syringes[id].name = row.name
                 ELSE id = "0"]_vars

\* C14 witness: an apply_rates has stored the 10 mL syringe for X and then
\* read a selection that is not in the table for Y, which now has "0".
C14_Witness ==
    /\ gOp = "apply_rates"
    /\ Len(gIn) >= 2
    /\ gIn[1].name = "10 mL HenkeJect"
    /\ ~KnownName(gIn[2].name)
    /\ pumps["X"].syringe = "1"
    /\ pumps["Y"].syringe = "0"

\* C15: cancelled becomes true only in cancel_and_reset and becomes false
\* only in connect_serial, which do set and clear it; no step of
\* apply_rates, toggle_pump, disconnect_serial or the scheduler changes it.
C15_LatchWriters ==
    [][/\ (~cancelled /\ cancelled') =>
             (gOp = "cancel_and_reset" /\ gpc = "k_flag")
       /\ (cancelled /\ ~cancelled') =>
             (gpc = "idle" /\ gOp' = "connect_serial")
       /\ (gpc = "k_flag" /\ gpc' # gpc) => cancelled'
       /\ (gpc = "idle" /\ gOp' = "connect_serial") => ~cancelled'
       /\ (gOp \in {"apply_rates", "disconnect_serial"} /\ gpc' # gpc) =>
             cancelled' = cancelled
       /\ (spc' # spc \/ pumps' # pumps) => cancelled' = cancelled]_vars

\* C15 witness: the latch is set and a disconnect_serial has run to its end
\* on a state in which a tick is in progress.
C15_Witness ==
    /\ cancelled
    /\ gOp = "disconnect_serial"
    /\ gpc = "ret"
    /\ ~connected
    /\ TickBody

\* The G1 line has a rate field for the axis
HasField(line, axis) == \E j \in 1..Len(line.args) : line.args[j].k = axis

\* C16: a step of toggle_pump negates the enabled flag of its axis and
\* changes no other axis and no other field, so that a second toggle of
\* the same axis restores the state of the pumps; and the G1 line of a
\* tick during which no axis was toggled after the loop had read it has a
\* rate field for an axis exactly when that axis is enabled.
C16_ToggleTwiceRestores ==
    [][/\ (gpc = "idle" /\ gpc' = "idle" /\ pumps' # pumps) =>
             \E axis \in AxisSet :
                /\ pumps' = TogglePump(pumps, axis)
                /\ pumps'[axis].enabled = ~pumps[axis].enabled
                /\ \A b \in AxisSet \ {axis} : pumps'[b] = pumps[b]
                /\ pumps'[axis] = [pumps[axis] EXCEPT !.enabled = ~@]
                /\ TogglePump(pumps', axis) = pumps
       /\ \A axis \in AxisSet :
             TogglePump(TogglePump(pumps, axis), axis) = pumps
       /\ (SchedEmitsMotion' /\ ~dirty) =>
             \A axis \in AxisSet :
                HasField(out'.line, axis) <=> pumps[axis].enabled]_vars

\* C16 witness: on the real transport a tick with no toggle after its
\* reads has sent a line without X and with Y, X being disabled and Y
\* enabled.
C16_Witness ==
    /\ SchedEmitsMotion
    /\ spc = "print"
    /\ ~dirty
    /\ ~pumps["X"].enabled
    /\ pumps["Y"].enabled
    /\ ~HasField(out.line, "X")
    /\ HasField(out.line, "Y")

\* The main-loop thread is inside a with lock block
GuiInWith == gpc \in {"k_flag", "k_flow", "k_send", "a_set", "a_send"}

\* C17: the scheduler thread holds the lock exactly while it is in the
\* body of a tick (never while sleeping), the main-loop thread only inside
\* the with block of cancel_and_reset or apply_rates, and whenever
\* connected holds and cancelled does not, the scheduler thread is alive
\* to send the next motion command.
C17_LockHeldOnlyInTickAndAlive ==
    /\ lock = "sched" <=> TickBody
    /\ lock = "gui" => GuiInWith
    /\ (connected /\ ~cancelled) => spc # "dead"

\* C18: on the real transport no G1 line of the scheduler reaches the
\* transport while connect_serial is still sending its init lines.
C18_NoMotionDuringInit ==
    (SchedEmitsMotion /\ ~MOCK_MODE) =>
        ~(gOp = "connect_serial" /\ gpc = "c_init")

\* C19: every ser.write the scheduler thread executes finds the handle
\* open: not closed and not set to None by a disconnect_serial.
C19_WriteFindsOpenHandle ==
    [][(spc = "write" /\ spc' # spc) => ser = "open"]_vars

\* C20: from the end of the zeroing loop of cancel_and_reset until
\* apply_rates is called, all three flows are 0.0, and every G1 line sent
\* in that time (after a connect_serial has cleared the latch) carries the
\* rate 0 for every axis it names.
C20_FlowsStayZero ==
    zeroRan =>
        /\ \A a \in AxisSet : pumps[a].flow = 0
        /\ SchedEmitsMotion =>
              \A j \in 1..Len(out.line.args) :
                 out.line.args[j].k \in AxisSet =>
                    (out.line.args[j].mag = 0 /\ ~out.line.args[j].neg)

\* C20 witness: after a cancel_and_reset and a later connect_serial, with
\* no apply_rates called since, a tick has sent a G1 line naming all three
\* axes with rate 0.
C20_Witness ==
    /\ zeroRan
    /\ ~cancelRan
    /\ SchedEmitsMotion
    /\ Len(out.line.args) = 4
    /\ \A j \in 1..3 : out.line.args[j].mag = 0
    /\ \E a \in AxisSet : pumps[a].syringe # "0"

====
